---- MODULE Spec2Model ----
(***************************************************************************)
(* Model of the Kenwood TS-2000 driver (chirp/drivers/ts2000.py): the      *)
(* memory codec (_parse_mem, _parse_split, _make_mem_spec,                 *)
(* _make_split_spec, the MW command builders, the sweep-limit index        *)
(* mapping), the settings get/set exchanges (_kenwood_set,                 *)
(* _kenwood_simple_get), the DTMF memory group and the settings tables     *)
(* (_SETTINGS, _SETTINGS_MENUS, _PF_BUTTONS).                              *)
(*                                                                         *)
(* Conventions.  A Python str that is sliced, formatted or concatenated on *)
(* the wire is a sequence of one-character strings (<<"M","W">> is "MW").  *)
(* Enumerated labels that are only looked up in tables (mode, tone mode,   *)
(* duplex, skip) are TLA+ strings.  Tone frequencies are in tenths of Hz   *)
(* (88.5 is 885) and tuning steps in hundredths of kHz (6.25 is 625), so   *)
(* that the tables hold integers.  A raised Python exception is the value  *)
(* of the err field of the result; err = "" is a normal return.            *)
(***************************************************************************)
EXTENDS Integers, Sequences, FiniteSets, TLC

VARIABLES op, arg, ret, pc, log

vars == <<op, arg, ret, pc, log>>

----------------------------------------------------------------------------
(* Python string primitives *)

Digit == <<"0", "1", "2", "3", "4", "5", "6", "7", "8", "9">>

DigitChars == {Digit[i] : i \in 1..10}

\* str(n) for n >= 0
RECURSIVE DigitsOf(_)
DigitsOf(n) ==
    IF n < 10 THEN <<Digit[n + 1]>>
    ELSE DigitsOf(n \div 10) \o <<Digit[(n % 10) + 1]>>

Zeros(k) == IF k <= 0 THEN <<>> ELSE [i \in 1..k |-> "0"]

\* "%0<w>i" % n for n >= 0: zero padded to at least w characters, never cut
FmtInt(n, w) ==
    LET d == DigitsOf(n)
    IN  Zeros(w - Len(d)) \o d

DigitVal(c) == CHOOSE k \in 0..9 : Digit[k + 1] = c

\* int(s) accepts a non-empty run of decimal digits; anything else in the
\* alphabet of the model (blank, letters, the empty string) is a ValueError
IsInt(s) == Len(s) > 0 /\ \A i \in 1..Len(s) : s[i] \in DigitChars

RECURSIVE ParseInt(_)
ParseInt(s) ==
    IF Len(s) = 0 THEN 0
    ELSE ParseInt(SubSeq(s, 1, Len(s) - 1)) * 10 + DigitVal(s[Len(s)])

Min(a, b) == IF a < b THEN a ELSE b

\* s[a:b] with 0-based, end-exclusive, clamped Python slice semantics
Slice(s, a, b) == SubSeq(s, Min(a, Len(s)) + 1, Min(b, Len(s)))

\* s[i] with a 0-based index: defined only when HasIndex(s, i)
HasIndex(s, i) == i < Len(s)

At(s, i) == s[i + 1]

RECURSIVE Join(_)
Join(parts) == IF Len(parts) = 0 THEN <<>> ELSE Head(parts) \o Join(Tail(parts))

\* t.index(x): 0-based position of the first occurrence, -1 for ValueError
IndexOf(t, x) ==
    LET hits == {i \in 1..Len(t) : t[i] = x}
    IN  IF hits = {} THEN -1
        ELSE (CHOOSE i \in hits : \A j \in hits : i <= j) - 1

----------------------------------------------------------------------------
(* Class constants of TS2000Radio *)

\* Faulty variant: the argument delimiter of the sibling radios of the family
_ARG_DELIMITER_sibling == <<" ">>

_ARG_DELIMITER == <<>>

_CMD_DELIMITER == <<";">>

_UPPER == 289

\* _DUPLEX = {0: "", 1: "+", 2: "-", 3: "=", 4: "split"}, as the tuple of
\* values indexed by key + 1
_DUPLEX == <<"", "+", "-", "=", "split">>

\* _MODES, key 8 is absent
_MODES == [k \in {1, 2, 3, 4, 5, 6, 7, 9} |->
             CASE k = 1 -> "LSB" [] k = 2 -> "USB" [] k = 3 -> "CW"
               [] k = 4 -> "FM"  [] k = 5 -> "AM"  [] k = 6 -> "FSK"
               [] k = 7 -> "CW-R" [] k = 9 -> "FSK-R"]

_SSB_STEPS == <<100, 250, 500, 1000>>

_FM_STEPS == <<500, 625, 1000, 1250, 1500, 2000, 2500, 3000, 5000, 10000>>

_TMODES == <<"", "Tone", "TSQL", "DTCS">>

\* chirp_common.OLD_TONES
OLD_TONES ==
    <<670, 693, 719, 744, 770, 797, 825, 854, 885, 915, 948, 974, 1000, 1035,
      1072, 1109, 1148, 1188, 1230, 1273, 1318, 1365, 1413, 1462, 1514, 1567,
      1622, 1679, 1738, 1799, 1862, 1928, 2035, 2107, 2181, 2257, 2336, 2418,
      2503>>

_TONES == SelectSeq(OLD_TONES, LAMBDA x : x # 693)

\* chirp_common.DTCS_CODES
DTCS_CODES ==
    <<23, 25, 26, 31, 32, 36, 43, 47, 51, 53, 54, 65, 71, 72, 73, 74, 114, 115,
      116, 122, 125, 131, 132, 134, 143, 145, 152, 155, 156, 162, 165, 172,
      174, 205, 212, 223, 225, 226, 243, 244, 245, 246, 251, 252, 255, 261,
      263, 265, 266, 271, 274, 306, 311, 315, 325, 331, 332, 343, 346, 351,
      356, 364, 365, 371, 411, 412, 413, 423, 431, 432, 445, 446, 452, 454,
      455, 462, 464, 465, 466, 503, 506, 516, 523, 526, 532, 546, 565, 606,
      612, 624, 627, 631, 632, 654, 662, 664, 703, 712, 723, 731, 732, 734,
      743, 754>>

\* _SPECIAL_CHANS: "290 Start", "290 End", ..., "299 Start", "299 End"
_SPECIAL_CHANS ==
    [k \in 1..20 |->
        FmtInt(_UPPER + 1 + ((k - 1) \div 2), 3) \o
        (IF (k - 1) % 2 = 0 THEN <<" ", "S", "t", "a", "r", "t">>
                            ELSE <<" ", "E", "n", "d">>)]

\* rf.valid_name_length
VALID_NAME_LENGTH == 7

IMMUTABLE_FIELDS ==
    {"name", "tmode", "rtone", "ctone", "dtcs", "duplex", "offset", "mode",
     "tuning_step", "skip"}

----------------------------------------------------------------------------
(* Collaborators outside ts2000.py *)

\* chirp_common.Memory(): the fields a fresh record starts with
Memory ==
    [number |-> 0, extd_number |-> <<>>, freq |-> 0, mode |-> "FM",
     tuning_step |-> 500, skip |-> "", tmode |-> "", rtone |-> 885,
     ctone |-> 885, dtcs |-> 23, duplex |-> "", offset |-> 600000,
     name |-> <<>>, empty |-> FALSE, immutable |-> {}]

\* KenwoodD7Family._index_to_memid with _CALL_CHANS and _PROGRAMMABLE_VFOS
\* empty: "%03d" for a normal channel, the special name above _UPPER
IndexHasMemid(index) == index <= _UPPER + 20

_index_to_memid(index) ==
    IF index <= _UPPER THEN FmtInt(index, 3)
    ELSE _SPECIAL_CHANS[index - _UPPER]

\* KenwoodD7Family._memid_to_index: the inverse of _index_to_memid
_memid_to_index(memid) ==
    IF IsInt(memid) THEN ParseInt(memid)
    ELSE _UPPER + (CHOOSE k \in DOMAIN _SPECIAL_CHANS : _SPECIAL_CHANS[k] = memid)

\* util.get_dict_rev(thedict, value): the key of value, -1 for KeyError
get_dict_rev_DUPLEX(value) == IndexOf(_DUPLEX, value)

get_dict_rev_MODES(value) ==
    IF \E k \in DOMAIN _MODES : _MODES[k] = value
    THEN CHOOSE k \in DOMAIN _MODES : _MODES[k] = value
    ELSE -1

----------------------------------------------------------------------------
(* Index mapping *)

\* Faulty variant: the base is not moved back above _UPPER (the + 1 is dropped)
_get_range_end_mem_base_off(index) ==
    LET base == index - _UPPER - 1
    IN  <<base % 2, (base \div 2) + _UPPER>>

\* (end, base) of a sweep-limit index; int(base / 2) truncates, and base >= 0
\* wherever the driver calls it (index > _UPPER)
_get_range_end_mem(index) ==
    LET base == index - _UPPER - 1
    IN  <<base % 2, (base \div 2) + _UPPER + 1>>

\* memstr of _cmd_set_memory_or_split and _cmd_get_memory_or_split: the
\* 4-character index tag.  Called with not (index > _UPPER and split).
MemStr(memid, split) ==
    LET index == _memid_to_index(memid)
        sd == IF split THEN 1 ELSE 0
    IN  IF index > _UPPER
        THEN LET t == _get_range_end_mem(index)
             IN  DigitsOf(t[1]) \o FmtInt(t[2], 3)
        ELSE DigitsOf(sd) \o memid

----------------------------------------------------------------------------
(* Encoding *)

\* x in " +-" is Python's substring test
InBlankPlusMinus(x) == x \in {"", " ", "+", "-", " +", "+-", " +-"}

\* Faulty variant: the FM/AM table is used whatever the mode
StepIndex_fm_table(mem) == IndexOf(_FM_STEPS, mem.tuning_step)

StepIndex(mem) ==
    IF mem.mode \in {"AM", "FM"} THEN IndexOf(_FM_STEPS, mem.tuning_step)
    ELSE IndexOf(_SSB_STEPS, mem.tuning_step)

\* Faulty variant: the tone mode is not consulted, the stored tones are always encoded
ToneFields_ignore_tmode(mem) ==
    IF IndexOf(_TONES, mem.rtone) < 0 \/ IndexOf(_TONES, mem.ctone) < 0
       \/ IndexOf(DTCS_CODES, mem.dtcs) < 0
    THEN <<"ValueError", 0, 0, 0>>
    ELSE <<"", IndexOf(_TONES, mem.rtone) + 1,
           IndexOf(_TONES, mem.ctone) + 1, IndexOf(DTCS_CODES, mem.dtcs)>>

\* The tone block shared by both spec builders: <<err, rtone, ctone, dtcs>>
ToneFields(mem) ==
    IF mem.tmode = "" THEN <<"", 0, 0, 0>>
    ELSE IF IndexOf(_TONES, mem.rtone) < 0 \/ IndexOf(_TONES, mem.ctone) < 0
            \/ IndexOf(DTCS_CODES, mem.dtcs) < 0
         THEN <<"ValueError", 0, 0, 0>>
         ELSE <<"", IndexOf(_TONES, mem.rtone) + 1,
                IndexOf(_TONES, mem.ctone) + 1, IndexOf(DTCS_CODES, mem.dtcs)>>

\* The duplex branch of _make_mem_spec: <<err, duplex, offset>>.  LOG is not
\* defined in the module, so the else branch raises NameError.
DuplexFields(mem) ==
    IF InBlankPlusMinus(mem.duplex)
    THEN IF get_dict_rev_DUPLEX(mem.duplex) < 0 THEN <<"KeyError", 0, 0>>
         ELSE <<"", get_dict_rev_DUPLEX(mem.duplex), mem.offset>>
    ELSE IF mem.duplex = "split" THEN <<"", 0, 0>>
    ELSE <<"NameError", 0, 0>>

\* Faulty variant: the step index is emitted before the offset
SpecTuple_step_first(freqField, mem, tf, duplex, offset, step) ==
    << FmtInt(freqField, 11),
       DigitsOf(get_dict_rev_MODES(mem.mode)),
       DigitsOf(IF mem.skip = "S" THEN 1 ELSE 0),
       DigitsOf(IndexOf(_TMODES, mem.tmode)),
       FmtInt(tf[2], 2),
       FmtInt(tf[3], 2),
       FmtInt(tf[4], 3),
       <<"0">>,
       DigitsOf(duplex),
       FmtInt(step, 2),
       FmtInt(offset, 9),
       <<"0">>,
       mem.name >>

\* The 13-part tuple both builders return, from the resolved values
SpecTuple(freqField, mem, tf, duplex, offset, step) ==
    << FmtInt(freqField, 11),
       DigitsOf(get_dict_rev_MODES(mem.mode)),
       DigitsOf(IF mem.skip = "S" THEN 1 ELSE 0),
       DigitsOf(IndexOf(_TMODES, mem.tmode)),
       FmtInt(tf[2], 2),
       FmtInt(tf[3], 2),
       FmtInt(tf[4], 3),
       <<"0">>,
       DigitsOf(duplex),
       FmtInt(offset, 9),
       FmtInt(step, 2),
       <<"0">>,
       mem.name >>

NoSpec(e) == [err |-> e, spec |-> <<>>]

_make_mem_spec(memid, mem) ==
    LET df == DuplexFields(mem)
        step == StepIndex(mem)
        tf == ToneFields(mem)
    IN  IF df[1] # "" THEN NoSpec(df[1])
        ELSE IF step < 0 THEN NoSpec("ValueError")
        ELSE IF tf[1] # "" THEN NoSpec(tf[1])
        ELSE IF get_dict_rev_MODES(mem.mode) < 0 THEN NoSpec("KeyError")
        ELSE IF IndexOf(_TMODES, mem.tmode) < 0 THEN NoSpec("ValueError")
        ELSE [err |-> "", spec |-> SpecTuple(mem.freq, mem, tf, df[2], df[3], step)]

_make_split_spec(memid, mem) ==
    LET df == DuplexFields(mem)
        step == StepIndex(mem)
        tf == ToneFields(mem)
    IN  IF df[1] # "" THEN NoSpec(df[1])
        ELSE IF step < 0 THEN NoSpec("ValueError")
        ELSE IF tf[1] # "" THEN NoSpec(tf[1])
        ELSE IF get_dict_rev_MODES(mem.mode) < 0 THEN NoSpec("KeyError")
        ELSE IF IndexOf(_TMODES, mem.tmode) < 0 THEN NoSpec("ValueError")
        ELSE [err |-> "", spec |-> SpecTuple(mem.offset, mem, tf, df[2], 0, step)]

----------------------------------------------------------------------------
(* Command construction *)

NoCmd(e) == [err |-> e, cmd |-> <<>>]

_cmd_set_memory_or_split(memid, memory, split) ==
    LET index == _memid_to_index(memid)
        spec == IF split THEN _make_split_spec(memid, memory)
                ELSE _make_mem_spec(memid, memory)
    IN  IF index > _UPPER /\ split THEN NoCmd("RadioError")
        ELSE IF memory.empty
        THEN [err |-> "",
              cmd |-> <<"M", "W">> \o MemStr(memid, split) \o FmtInt(0, 35)
                      \o <<";", "I", "D">>]
        ELSE IF spec.err # "" THEN NoCmd(spec.err)
        ELSE [err |-> "",
              cmd |-> <<"M", "W">> \o MemStr(memid, split) \o Join(spec.spec)
                      \o <<";", "I", "D">>]

_cmd_erase_memory(number) ==
    [err |-> "", cmd |-> <<"M", "W">> \o FmtInt(number, 4) \o FmtInt(0, 35)]

----------------------------------------------------------------------------
(* Decoding *)

\* t[i] for a Python tuple or list: negative indices count from the end
TupleHas(t, i) == -Len(t) <= i /\ i < Len(t)

TupleGet(t, i) == IF i < 0 THEN t[Len(t) + i + 1] ELSE t[i + 1]

ParseFail(e) == [err |-> e, mem |-> Memory]

\* The number block of _parse_mem: mnum from P2 + P3, re-based above _UPPER
\* with the pair-half digit P1 (spec[3] of the padded string)
ParsedNumber(s) ==
    LET mnum == ParseInt(<<At(s, 4)>> \o Slice(s, 5, 7))
    IN  IF mnum > _UPPER
        THEN _UPPER + ((mnum - _UPPER) * 2) - 1 + (IF At(s, 3) = "1" THEN 1 ELSE 0)
        ELSE mnum

\* Faulty variant: the pair-half digit is not consulted
IsRangeEnd_any_half(s, number) == number > _UPPER

\* The test both decode paths make before marking the fields immutable
IsRangeEnd(s, number) == number > _UPPER /\ At(s, 3) = "1"

\* The fields decoded after the empty check and the range-end early return
ParseRest(s, m) ==
    LET p6 == <<At(s, 19)>>
        p7 == <<At(s, 20)>>
        p8 == Slice(s, 21, 23)
        p9 == Slice(s, 23, 25)
        p10 == Slice(s, 25, 28)
        p12 == <<At(s, 29)>>
        p13 == Slice(s, 30, 39)
        p16 == Slice(s, 42, 49)
    IN  IF ~IsInt(p6) THEN ParseFail("ValueError")
        ELSE IF ~TupleHas(<<"", "S">>, ParseInt(p6)) THEN ParseFail("IndexError")
        ELSE IF ~IsInt(p7) THEN ParseFail("ValueError")
        ELSE IF ~TupleHas(_TMODES, ParseInt(p7)) THEN ParseFail("IndexError")
        ELSE IF ~IsInt(p8) THEN ParseFail("ValueError")
        ELSE IF ~TupleHas(_TONES, ParseInt(p8) - 1) THEN ParseFail("IndexError")
        ELSE IF ~IsInt(p9) THEN ParseFail("ValueError")
        ELSE IF ~TupleHas(_TONES, ParseInt(p9) - 1) THEN ParseFail("IndexError")
        ELSE IF ~IsInt(p10) THEN ParseFail("ValueError")
        ELSE IF ~TupleHas(DTCS_CODES, ParseInt(p10)) THEN ParseFail("IndexError")
        ELSE IF ~IsInt(p12) THEN ParseFail("ValueError")
        ELSE IF ParseInt(p12) >= Len(_DUPLEX) THEN ParseFail("KeyError")
        ELSE IF ~IsInt(p13) THEN ParseFail("ValueError")
        ELSE [err |-> "",
              mem |-> [m EXCEPT
                 !.skip = TupleGet(<<"", "S">>, ParseInt(p6)),
                 !.tmode = TupleGet(_TMODES, ParseInt(p7)),
                 !.rtone = TupleGet(_TONES, ParseInt(p8) - 1),
                 !.ctone = TupleGet(_TONES, ParseInt(p9) - 1),
                 !.dtcs = TupleGet(DTCS_CODES, ParseInt(p10)),
                 !.duplex = _DUPLEX[ParseInt(p12) + 1],
                 !.offset = ParseInt(p13),
                 !.name = p16]]

\* The part of _parse_mem after the empty check: frequency, mode, step, the
\* early return of a range-end record, then the remaining fields
ParseProgrammed(s, m0) ==
    LET p4 == Slice(s, 7, 18)
        p5 == <<At(s, 18)>>
        p14 == Slice(s, 39, 41)
        mode == _MODES[ParseInt(p5)]
        steps == IF mode \in {"AM", "FM"} THEN _FM_STEPS ELSE _SSB_STEPS
        m == [m0 EXCEPT !.freq = ParseInt(p4), !.mode = mode,
                        !.tuning_step = TupleGet(steps, ParseInt(p14))]
    IN  IF ~IsInt(p4) THEN ParseFail("ValueError")
        ELSE IF ~IsInt(p5) THEN ParseFail("ValueError")
        ELSE IF ParseInt(p5) \notin DOMAIN _MODES THEN ParseFail("KeyError")
        ELSE IF ~IsInt(p14) THEN ParseFail("ValueError")
        ELSE IF ~TupleHas(steps, ParseInt(p14)) THEN ParseFail("IndexError")
        ELSE IF IsRangeEnd(s, m.number)
             THEN [err |-> "", mem |-> [m EXCEPT !.immutable = IMMUTABLE_FIELDS]]
        ELSE ParseRest(s, m)

\* Faulty variant: the flag is read at its offset in the unpadded string
IsEmptyRecord_unpadded(s) == At(s, 17) = "0"

\* The empty check of _parse_mem (the mode digit P5 is "0")
IsEmptyRecord(s) == At(s, 18) = "0"

_parse_mem(spec) ==
    LET s == <<" ">> \o spec
        number == ParsedNumber(s)
        m0 == [Memory EXCEPT
                 !.number = number,
                 !.extd_number = IF number > _UPPER THEN _index_to_memid(number)
                                 ELSE Memory.extd_number]
    IN  \* spec[4], spec[18], spec[19], spec[20], spec[29] are plain indexings
        IF ~HasIndex(s, 29) THEN ParseFail("IndexError")
        ELSE IF ~IsInt(<<At(s, 4)>> \o Slice(s, 5, 7)) THEN ParseFail("ValueError")
        ELSE IF ~IndexHasMemid(number) THEN ParseFail("RadioError")
        ELSE IF IsEmptyRecord(s)
             THEN [err |-> "",
                   mem |-> [m0 EXCEPT
                      !.empty = TRUE,
                      !.immutable = IF IsRangeEnd(s, number) THEN IMMUTABLE_FIELDS
                                    ELSE m0.immutable]]
        ELSE ParseProgrammed(s, m0)

\* Faulty variant: the record is marked split without comparing frequencies
_parse_split_always(mem, spec) ==
    LET s == <<" ">> \o spec
        split_freq == ParseInt(Slice(s, 7, 18))
    IN  IF ~IsInt(Slice(s, 7, 18)) THEN [err |-> "ValueError", mem |-> mem]
        ELSE [err |-> "", mem |-> [mem EXCEPT !.duplex = "split",
                                              !.offset = split_freq]]

\* _parse_split: the split frequency is P4 of the split response
_parse_split(mem, spec) ==
    LET s == <<" ">> \o spec
        split_freq == ParseInt(Slice(s, 7, 18))
    IN  IF ~IsInt(Slice(s, 7, 18)) THEN [err |-> "ValueError", mem |-> mem]
        ELSE IF mem.freq # split_freq
             THEN [err |-> "", mem |-> [mem EXCEPT !.duplex = "split",
                                                   !.offset = split_freq]]
        ELSE [err |-> "", mem |-> mem]

\* _cmd_get_memory_or_split: None (no command) for a split read above _UPPER
_cmd_get_memory_or_split(memid, split) ==
    IF _memid_to_index(memid) > _UPPER /\ split THEN NoCmd("None")
    ELSE [err |-> "", cmd |-> <<"M", "R">> \o MemStr(memid, split)]

----------------------------------------------------------------------------
(* Settings exchanges *)

\* The check that ends _kenwood_set
_kenwood_set_result(cmd, value, resp) ==
    IF resp # cmd \o _ARG_DELIMITER \o value
    THEN [err |-> "Radio refused to set", key |-> cmd]
    ELSE [err |-> "", key |-> cmd]

\* The command _kenwood_set sends
_kenwood_set_command(cmd, value) == cmd \o value \o _CMD_DELIMITER \o cmd

\* Faulty variant: a reply without payload is refused
_kenwood_simple_get_needs_payload(cmd, resp) ==
    IF Len(resp) > Len(cmd) /\ Slice(resp, 0, Len(cmd)) = cmd
    THEN [err |-> "", key |-> cmd, value |-> Slice(resp, Len(cmd), Len(resp))]
    ELSE [err |-> "Radio refused to return", key |-> cmd, value |-> <<>>]

_kenwood_simple_get(cmd, resp) ==
    IF Slice(resp, 0, Len(cmd)) = cmd
    THEN [err |-> "", key |-> cmd, value |-> Slice(resp, Len(cmd), Len(resp))]
    ELSE IF resp = cmd
         THEN [err |-> "", key |-> resp, value |-> <<>>]
         ELSE [err |-> "Radio refused to return", key |-> cmd, value |-> <<>>]

----------------------------------------------------------------------------
(* Kenwoodts2000DTMFMemory *)

\* _get_index: self._name[7:8] of the group name (EX045010 .. EX045019)
_get_index(name) == Slice(name, 7, 8)

\* The two elements __init__ appends: "EX04501%s0" (Memory Name) and
\* "EX04501%s1" (Memory Value)
DTMFElementNames(name) ==
    << <<"E", "X", "0", "4", "5", "0", "1">> \o _get_index(name) \o <<"0">>,
       <<"E", "X", "0", "4", "5", "0", "1">> \o _get_index(name) \o <<"1">> >>

\* Faulty variant: only the empty value is rewritten
DTMFValue_empty_only(value) ==
    IF value = <<>> THEN <<" ">> ELSE value

\* The value set_setting_to_radio hands to _kenwood_set
DTMFValue(value) ==
    LET v == IF value = <<>> THEN <<" ">> ELSE value
    IN  IF Slice(v, 0, 1) = <<" ">> THEN <<" ">> ELSE v

----------------------------------------------------------------------------
(* Settings tables.  Keys, labels and wire codes are TLA+ strings: they are *)
(* only compared and looked up here.  A schema keeps its type and, for a   *)
(* map, its (label, code) pairs; the values of a list and the limits of an *)
(* integer or string are not consulted by any operation of this model.     *)

_BOOL == [type |-> "bool"]

_DTMF_MEMORY == [type |-> "Kenwoodts2000DTMFMemory"]

\* The label of code 75 is written with an arrow character in the source
_PF_BUTTONS ==
    [type |-> "map",
     map |-> <<
        <<"Menu 0", "00">>, <<"Menu 1", "01">>, <<"Menu 2", "02">>,
        <<"Menu 3", "03">>, <<"Menu 4", "04">>, <<"Menu 5", "05">>,
        <<"Menu 6", "06">>, <<"Menu 7", "07">>, <<"Menu 8", "08">>,
        <<"Menu 9", "09">>, <<"Menu 10", "10">>, <<"Menu 11", "11">>,
        <<"Menu 12", "12">>, <<"Menu 13", "13">>, <<"Menu 14", "14">>,
        <<"Menu 15", "15">>, <<"Menu 16", "16">>, <<"Menu 17", "17">>,
        <<"Menu 18", "18">>, <<"Menu 19", "19">>, <<"Menu 20", "20">>,
        <<"Menu 21", "21">>, <<"Menu 22", "22">>, <<"Menu 23", "23">>,
        <<"Menu 24", "24">>, <<"Menu 25", "25">>, <<"Menu 26", "26">>,
        <<"Menu 27", "26">>, <<"Menu 28", "28">>, <<"Menu 29", "29">>,
        <<"Menu 30", "30">>, <<"Menu 31", "31">>, <<"Menu 32", "32">>,
        <<"Menu 33", "33">>, <<"Menu 34", "34">>, <<"Menu 35", "35">>,
        <<"Menu 36", "36">>, <<"Menu 37", "37">>, <<"Menu 38", "38">>,
        <<"Menu 39", "39">>, <<"Menu 40", "40">>, <<"Menu 41", "41">>,
        <<"Menu 42", "42">>, <<"Menu 43", "43">>, <<"Menu 44", "44">>,
        <<"Menu 45", "45">>, <<"Menu 46", "46">>, <<"Menu 47", "47">>,
        <<"Menu 48", "48">>, <<"Menu 49", "49">>, <<"Menu 50", "50">>,
        <<"Menu 51", "51">>, <<"Menu 52", "52">>, <<"Menu 53", "53">>,
        <<"Menu 54", "54">>, <<"Menu 55", "55">>, <<"Menu 56", "56">>,
        <<"Menu 57", "57">>, <<"Menu 58", "58">>, <<"Menu 59", "59">>,
        <<"Menu 60", "60">>, <<"Menu 61", "61">>, <<"Menu 62", "62">>,
        <<"Voice 1", "63">>, <<"Voice 2", "64">>, <<"RX Moni", "65">>,
        <<"DSP Moni", "66">>, <<"Quick Memo MR", "67">>,
        <<"Quick Memo M.In", "68">>, <<"Split", "69">>, <<"TF-SET", "70">>,
        <<"A/B", "71">>, <<"VFO/M", "72">>, <<"A=B", "73">>,
        <<"Scan", "74">>, <<"M->VFO", "75">>, <<"M.In", "76">>,
        <<"CW Tune", "77">>, <<"CH1", "78">>, <<"CH2", "79">>,
        <<"CH3", "80">>, <<"Fine", "81">>, <<"CLR", "82">>, <<"Call", "83">>,
        <<"Ctrl", "84">>, <<"1 MHz", "85">>, <<"ANT1/2", "86">>,
        <<"NB", "87">>, <<"N.R.", "88">>, <<"B.C.", "89">>, <<"A.N.", "90">>,
        <<"No Function", "99">> >>]

\* The items of the _SETTINGS dict, in source order
_SETTINGS ==
    <<
      <<"EX0000000", [type |-> "list"]>>, <<"EX0010000", _BOOL>>,
      <<"EX0020000", [type |-> "list"]>>, <<"EX0030000", _BOOL>>,
      <<"EX0040000", _BOOL>>, <<"EX0050000", _BOOL>>, <<"EX0060100", _BOOL>>,
      <<"EX0060200", _BOOL>>, <<"EX0070000", _BOOL>>,
      <<"EX0080000", [type |-> "list"]>>, <<"EX0090000", _BOOL>>,
      <<"EX0100000", [type |-> "list"]>>, <<"EX0110000", [type |-> "list"]>>,
      <<"EX0120000", [type |-> "list"]>>, <<"EX0130000", [type |-> "list"]>>,
      <<"EX0140000", [type |-> "list"]>>, <<"EX0150000", [type |-> "list"]>>,
      <<"EX0160000", [type |-> "list"]>>, <<"EX0170000", _BOOL>>,
      <<"EX0180000", _BOOL>>, <<"EX0190100", _BOOL>>,
      <<"EX0190200", [type |-> "list"]>>, <<"EX0200000", [type |-> "list"]>>,
      <<"EX0210000", [type |-> "list"]>>, <<"EX0220000", [type |-> "list"]>>,
      <<"EX0230000", _BOOL>>, <<"EX0240000", [type |-> "list"]>>,
      <<"EX0250000", _BOOL>>, <<"EX0260000", _BOOL>>, <<"EX0270000", _BOOL>>,
      <<"EX0280100", [type |-> "list"]>>, <<"EX0280200", [type |-> "list"]>>,
      <<"EX0280300", [type |-> "list"]>>, <<"EX0280400", [type |-> "list"]>>,
      <<"EX0280500", [type |-> "list"]>>, <<"EX0290100", _BOOL>>,
      <<"EX0290200", [type |-> "integer"]>>, <<"EX0300000", _BOOL>>,
      <<"EX0310000", [type |-> "list"]>>, <<"EX0320000", [type |-> "list"]>>,
      <<"EX0330000", [type |-> "list"]>>, <<"EX0340000", _BOOL>>,
      <<"EX0350000", _BOOL>>, <<"EX0360000", _BOOL>>, <<"EX0370000", _BOOL>>,
      <<"EX0380000", [type |-> "list"]>>, <<"EX0390000", [type |-> "list"]>>,
      <<"EX0400000", [type |-> "list"]>>, <<"EX0410000", [type |-> "list"]>>,
      <<"EX0420000", [type |-> "list"]>>, <<"EX0430000", _BOOL>>,
      <<"EX0440000", _BOOL>>,
      <<"EX045010", [type |-> "Kenwoodts2000DTMFMemory"]>>,
      <<"EX045011", [type |-> "Kenwoodts2000DTMFMemory"]>>,
      <<"EX045012", [type |-> "Kenwoodts2000DTMFMemory"]>>,
      <<"EX045013", [type |-> "Kenwoodts2000DTMFMemory"]>>,
      <<"EX045014", [type |-> "Kenwoodts2000DTMFMemory"]>>,
      <<"EX045015", [type |-> "Kenwoodts2000DTMFMemory"]>>,
      <<"EX045016", [type |-> "Kenwoodts2000DTMFMemory"]>>,
      <<"EX045017", [type |-> "Kenwoodts2000DTMFMemory"]>>,
      <<"EX045018", [type |-> "Kenwoodts2000DTMFMemory"]>>,
      <<"EX045019", [type |-> "Kenwoodts2000DTMFMemory"]>>,
      <<"EX0450200", [type |-> "list"]>>, <<"EX0450300", [type |-> "list"]>>,
      <<"EX0450400", _BOOL>>, <<"EX0460000", [type |-> "list"]>>,
      <<"EX0470000", [type |-> "list"]>>, <<"EX0480000", [type |-> "list"]>>,
      <<"EX0490100", [type |-> "list"]>>, <<"EX0490200", [type |-> "list"]>>,
      <<"EX0500100", _BOOL>>, <<"EX0500200", [type |-> "integer"]>>,
      <<"EX0500300", [type |-> "integer"]>>,
      <<"EX0500400", [type |-> "integer"]>>,
      <<"EX0500500", [type |-> "list"]>>, <<"EX0500600", [type |-> "list"]>>,
      <<"EX0510100", _PF_BUTTONS>>, <<"EX0510200", _PF_BUTTONS>>,
      <<"EX0510300", _PF_BUTTONS>>, <<"EX0510400", _PF_BUTTONS>>,
      <<"EX0510500", _PF_BUTTONS>>, <<"EX0520000", _BOOL>>,
      <<"EX0530000", _BOOL>>, <<"EX0540000", _BOOL>>,
      <<"TC", [type |-> "map", map |-> << <<"Off", " 1">>, <<"On", " 0">> >>]>>,
      <<"EX0560000", [type |-> "list"]>>, <<"EX0570000", [type |-> "list"]>>,
      <<"EX0580000", [type |-> "list"]>>,
      <<"EX0590000", [type |-> "integer"]>>,
      <<"EX0600000", [type |-> "list"]>>, <<"EX0610100", [type |-> "list"]>>,
      <<"EX0610200", _BOOL>>, <<"EX0610300", [type |-> "integer"]>>,
      <<"EX0610400", _BOOL>>, <<"EX0610500", _BOOL>>,
      <<"EX0620100", [type |-> "string"]>>,
      <<"EX0620200", [type |-> "string"]>>,
      <<"EX0620300", [type |-> "list"]>>, <<"EX0620400", [type |-> "list"]>>,
      <<"EX0620500", [type |-> "list"]>> >>

\* A (key, label) leaf is a record with a key, a (label, entries) group or
\* sub-menu a record with a menu
_SETTINGS_MENUS ==
    <<
      [label |-> "Operator Interface", menu |-> <<
          [key |-> "EX0000000", label |-> "Display Brightness"],
          [key |-> "EX0010000", label |-> "Key Illumination"] >>],
      [label |-> "Tuning Control", menu |-> <<
          [key |-> "EX0020000",
           label |-> "Tuning control change per revolution"],
          [key |-> "EX0030000", label |-> "Tuning with MULTI/ CH control"],
          [key |-> "EX0040000",
           label |-> "Rounds off VFO frequencies changed by using the MULTI/ CH control"],
          [key |-> "EX0050000",
           label |-> "9 kHz frequency step size for the MULTI/ CH control in AM mode on the AM broadcast band"] >>],
      [label |-> "Memory Channel", menu |-> <<
          [key |-> "EX0060100", label |-> "Memory-VFO split operation"],
          [key |-> "EX0060200",
           label |-> "Tunable (ON) or fixed (OFF) memory channel frequencies"] >>],
      [label |-> "Scan Operation", menu |-> <<
          [key |-> "EX0070000", label |-> "Program scan partially slowed"],
          [key |-> "EX0080000",
           label |-> "Slow down frequency range for the Program scan"],
          [key |-> "EX0090000", label |-> "Program scan hold"],
          [key |-> "EX0100000", label |-> "Scan resume method"],
          [key |-> "EX0110000", label |-> "Visual scan range"] >>],
      [label |-> "Monitor Sound", menu |-> <<
          [key |-> "EX0120000", label |-> "Beep output level"],
          [key |-> "EX0130000", label |-> "TX sidetone volume"],
          [key |-> "EX0140000", label |-> "DRU-3A playback volume"],
          [key |-> "EX0150000", label |-> "VS-3 playback volume"] >>],
      [label |-> "Speaker Output", menu |-> <<
          [key |-> "EX0160000",
           label |-> "Audio output configuration for EXT.SP2 or headphone"],
          [key |-> "EX0170000",
           label |-> "Reverses the EXT.SP1 and EXT.SP2 (the headphone jack L/R channels) audio outputs"] >>],
      [label |-> "RX Antenna", menu |-> <<
          [key |-> "EX0180000",
           label |-> "Enable an input from the HF RX ANT connector"] >>],
      [label |-> "S-meter Squelch", menu |-> <<
          [key |-> "EX0190100", label |-> "Enable S-meter squelch"],
          [key |-> "EX0190200", label |-> "Hang time for S-meter squelch"] >>],
      [label |-> "DSP Equalizer", menu |-> <<
          [key |-> "EX0200000", label |-> "DSP RX equalizer"],
          [key |-> "EX0210000", label |-> "DSP TX equalizer"] >>],
      [label |-> "DSP Filter", menu |-> <<
          [key |-> "EX0220000", label |-> "DSP Filter"] >>],
      [label |-> "Fine Tuning", menu |-> <<
          [key |-> "EX0230000", label |-> "Fine transmit power tuning"] >>],
      [label |-> "TOT", menu |-> <<
          [key |-> "EX0240000", label |-> "Time-out timer"] >>],
      [label |-> "Transverter", menu |-> <<
          [key |-> "EX0250000", label |-> "Transverter frequency display"] >>],
      [label |-> "Antenna Tuner", menu |-> <<
          [key |-> "EX0260000",
           label |-> "TX hold when AT completes the tuning"],
          [key |-> "EX0270000", label |-> "In-line AT while receiving"] >>],
      [label |-> "Linear Amplifier", menu |-> <<
          [key |-> "EX0280100",
           label |-> "Linear amplifier control delay for HF band"],
          [key |-> "EX0280200",
           label |-> "Linear amplifier control delay for 50 MHz band"],
          [key |-> "EX0280300",
           label |-> "Linear amplifier control delay for 144 MHz band"],
          [key |-> "EX0280400",
           label |-> "Linear amplifier control delay for 430/ 440 MHz band"],
          [key |-> "EX0280500",
           label |-> "Linear amplifier control delay for 1.2 GHz band"] >>],
      [label |-> "Message Playback", menu |-> <<
          [key |-> "EX0290100", label |-> "Repeat the playback"],
          [key |-> "EX0290200",
           label |-> "Interval time for repeating the playback"] >>],
      [label |-> "CW", menu |-> <<
          [key |-> "EX0300000", label |-> "Keying priority over playback"],
          [key |-> "EX0310000",
           label |-> "CW RX pitch/ TX sidetone frequency"],
          [key |-> "EX0320000", label |-> "CW rise time"],
          [key |-> "EX0330000", label |-> "CW keying dot, dash weight ratio"],
          [key |-> "EX0340000",
           label |-> "Reverse CW keying auto weight ratio"],
          [key |-> "EX0350000", label |-> "Bug key mode"],
          [key |-> "EX0360000", label |-> "Auto CW TX in SSB mode"],
          [key |-> "EX0370000",
           label |-> "Frequency correction for changing SSB to CW"] >>],
      [label |-> "FSK", menu |-> <<
          [key |-> "EX0380000", label |-> "FSK shift"],
          [key |-> "EX0390000", label |-> "FSK keying polarity"],
          [key |-> "EX0400000", label |-> "FSK tone frequency"] >>],
      [label |-> "FM", menu |-> <<
          [key |-> "EX0410000", label |-> "Mic gain for FM"],
          [key |-> "EX0420000", label |-> "Sub-tone mode for FM"],
          [key |-> "EX0430000", label |-> "Auto repeater offset"],
          [key |-> "EX0440000", label |-> "TX hold: 1750 Hz tone"] >>],
      [label |-> "DTMF", menu |-> <<
          [label |-> "DTMF number memory select", menu |-> <<
              [key |-> "EX045010", label |-> "Memory 0"],
              [key |-> "EX045011", label |-> "Memory 1"],
              [key |-> "EX045012", label |-> "Memory 2"],
              [key |-> "EX045013", label |-> "Memory 3"],
              [key |-> "EX045014", label |-> "Memory 4"],
              [key |-> "EX045015", label |-> "Memory 5"],
              [key |-> "EX045016", label |-> "Memory 6"],
              [key |-> "EX045017", label |-> "Memory 7"],
              [key |-> "EX045018", label |-> "Memory 8"],
              [key |-> "EX045019", label |-> "Memory 9"] >>],
          [key |-> "EX0450200", label |-> "TX speed for stored DTMF number"],
          [key |-> "EX0450300",
           label |-> "Pause duration for stored DTMF number"],
          [key |-> "EX0450400", label |-> "Enable Mic remote control"] >>],
      [label |-> "TNC", menu |-> <<
          [key |-> "EX0460000", label |-> "MAIN/ SUB band: Internal TNC"],
          [key |-> "EX0470000", label |-> "Data transfer speed: Internal TNC"],
          [key |-> "EX0480000", label |-> "DCD sensing band"],
          [label |-> "P.C.T. (Packet Cluster Tune) mode", menu |-> <<
              [key |-> "EX0490100", label |-> "Packet Cluster Tune mode"],
              [key |-> "EX0490200",
               label |-> "Packet Cluster RX confirmation tone"] >>],
          [label |-> "Packet configuration", menu |-> <<
              [key |-> "EX0500100", label |-> "Packet filter bandwidth"],
              [key |-> "EX0500200", label |-> "AF input level for Packet"],
              [key |-> "EX0500300",
               label |-> "MAIN band AF output level for packet operation"],
              [key |-> "EX0500400",
               label |-> "SUB band AF output level for packet operation"],
              [key |-> "EX0500500", label |-> "MAIN/ SUB band: External TNC"],
              [key |-> "EX0500600",
               label |-> "Data transfer speed: External TNC"] >>] >>],
      [label |-> "PF keys", menu |-> <<
          [key |-> "EX0510100", label |-> "Front panel PF key"],
          [key |-> "EX0510200", label |-> "Microphone PF1 (CALL) key"],
          [key |-> "EX0510300", label |-> "Microphone PF2 (VFO) key"],
          [key |-> "EX0510400", label |-> "Microphone PF3 (MR) key"],
          [key |-> "EX0510500", label |-> "Microphone PF4 (PF) key"] >>],
      [label |-> "Master/ Slave operation", menu |-> <<
          [key |-> "EX0520000",
           label |-> "Split frequency transfer in master/slave operation"],
          [key |-> "EX0530000",
           label |-> "Permit to write the transferred Split frequencies to the target VFOs"] >>],
      [label |-> "TX Inhibit", menu |-> <<
          [key |-> "EX0540000", label |-> "TX Inhibit"] >>],
      [label |-> "Packet", menu |-> <<
          [key |-> "TC ", label |-> "Packet communication mode"],
          [key |-> "EX0560000", label |-> "COM port communication speed"] >>],
      [label |-> "APO", menu |-> <<
          [key |-> "EX0570000", label |-> "APO (Auto Power Off) function"] >>],
      [label |-> "RC-2000 Configuration", menu |-> <<
          [key |-> "EX0580000",
           label |-> "RC-2000 font in easy operation mode"],
          [key |-> "EX0590000",
           label |-> "RC-2000 panel/ TS-2000(X) dot-matrix display contrast"],
          [key |-> "EX0600000", label |-> "Display mode for RC-2000"] >>],
      [label |-> "Repeater Functions", menu |-> <<
          [key |-> "EX0610100", label |-> "Repeater mode select"],
          [key |-> "EX0610200", label |-> "Repeater TX hold"],
          [key |-> "EX0610300", label |-> "Remote control ID code"],
          [key |-> "EX0610400",
           label |-> "Acknowledgement signal in external remote control mode"],
          [key |-> "EX0610500", label |-> "External remote control"] >>],
      [label |-> "Sky Command II+", menu |-> <<
          [key |-> "EX0620100",
           label |-> "Commander callsign for Sky Command II+"],
          [key |-> "EX0620200",
           label |-> "Transporter callsign for Sky Command II+"],
          [key |-> "EX0620300", label |-> "Sky Command II+ tone frequency"],
          [key |-> "EX0620400",
           label |-> "Sky Command II+ communication speed"],
          [key |-> "EX0620500", label |-> "Sky Command II+ mode"] >>] >>


\* key in self._SETTINGS, and self._SETTINGS[key] (defined when the key is in)
SettingsHas(key) == \E i \in 1..Len(_SETTINGS) : _SETTINGS[i][1] = key

SettingsGet(key) ==
    _SETTINGS[CHOOSE i \in 1..Len(_SETTINGS) : _SETTINGS[i][1] = key][2]

\* The setting keys a menu exposes: its leaves, sub-menus included, in order
RECURSIVE MenuKeys(_)
MenuKeys(menu) ==
    IF Len(menu) = 0 THEN <<>>
    ELSE (IF "key" \in DOMAIN Head(menu) THEN <<Head(menu).key>>
          ELSE MenuKeys(Head(menu).menu)) \o MenuKeys(Tail(menu))

\* The schema found for a menu leaf: KeyError when _SETTINGS has no such key
SettingSchema(key) ==
    IF SettingsHas(key) THEN [err |-> "", schema |-> SettingsGet(key)]
    ELSE [err |-> "KeyError", schema |-> [type |-> ""]]

\* A map schema in use: the wire code of a label, and the label shown for a
\* wire code; both take the first pair that matches
MapCode(map, label) ==
    map[CHOOSE i \in 1..Len(map) :
          map[i][1] = label /\ \A j \in 1..(i - 1) : map[j][1] # label][2]

MapLabel(map, code) ==
    map[CHOOSE i \in 1..Len(map) :
          map[i][2] = code /\ \A j \in 1..(i - 1) : map[j][2] # code][1]

----------------------------------------------------------------------------
(* Bounds and input samples *)

\* Normal channels 0..MaxLowChannel and _UPPER-MaxLowChannel.._UPPER are drawn
MaxLowChannel == 5

\* Setting values and response payloads hold at most this many characters
MaxPayloadLen == 2

NormalChannels == (0..MaxLowChannel) \cup ((_UPPER - MaxLowChannel).._UPPER)

SweepLimitIndexes == (_UPPER + 1)..(_UPPER + 20)

AllIndexes == NormalChannels \cup SweepLimitIndexes

RoundTripIndexes == {MaxLowChannel, _UPPER, _UPPER + 1, _UPPER + 3}

ModeNames == {_MODES[k] : k \in DOMAIN _MODES}

StepsOf(mode) ==
    IF mode \in {"AM", "FM"} THEN {_FM_STEPS[i] : i \in 1..Len(_FM_STEPS)}
    ELSE {_SSB_STEPS[i] : i \in 1..Len(_SSB_STEPS)}

NameSample ==
    {<<>>, <<"T", "E", "S", "T">>, <<"A", "B", "C", "D", "E", "F", "G">>}

\* <<rtone, ctone, dtcs>>: table entries, and one triple outside the tables
ToneSample == {<<885, 885, 23>>, <<2503, 670, 754>>, <<693, 1598, 24>>}

\* "=" and "split" are duplex-table values, " " and "x" are not
DuplexSample == {"", "+", "-", "=", "split", " ", "x"}

\* <<freq, offset>>
FreqSample == {<<14205000, 0>>, <<1299999999, 999999999>>}

Mem(freq, offset, mode, step, skip, tmode, tones, duplex, name) ==
    [Memory EXCEPT !.freq = freq, !.offset = offset, !.mode = mode,
                   !.tuning_step = step, !.skip = skip, !.tmode = tmode,
                   !.rtone = tones[1], !.ctone = tones[2], !.dtcs = tones[3],
                   !.duplex = duplex, !.name = name]

\* Every (mode, step) pair of the two step tables, other fields fixed
ModeStepMems ==
    UNION {{Mem(14205000, 0, mode, step, skip, tmode, <<885, 885, 23>>, "",
                <<"T", "E", "S", "T">>) :
              step \in StepsOf(mode), skip \in {"", "S"}, tmode \in {"", "Tone"}} :
           mode \in ModeNames}

\* Every combination of the other fields, for one SSB and one FM (mode, step)
FieldMems ==
    {Mem(f[1], f[2], ms[1], ms[2], skip, tmode, tones, duplex, name) :
       f \in FreqSample, ms \in {<<"USB", 500>>, <<"FM", 1250>>},
       skip \in {"", "S"}, tmode \in {_TMODES[i] : i \in 1..Len(_TMODES)},
       tones \in ToneSample, duplex \in DuplexSample, name \in NameSample}

MemSample == ModeStepMems \cup FieldMems

EmptyMem == [Memory EXCEPT !.empty = TRUE]

SmallMems ==
    { EmptyMem,
      Mem(14205000, 0, "USB", 500, "", "Tone", <<885, 885, 23>>, "",
          <<"T", "E", "S", "T">>),
      Mem(146520000, 146000000, "FM", 1250, "S", "", <<885, 885, 23>>, "split",
          <<"A", "B", "C", "D", "E", "F", "G">>),
      Mem(146520000, 600000, "FM", 1250, "", "TSQL", <<2503, 670, 754>>, "=",
          <<>>) }

\* What the radio holds for a channel, after the 4-character index tag: the
\* frequency, the mode digit and the remaining fixed-width fields and name
StoredFreq ==
    { Zeros(11), FmtInt(14205000, 11),
      <<"X", "X", "X", "X", "X", "X", "X", "X", "X", "X", "X">> }

StoredMode == {<<"0">>, <<"2">>, <<"4">>, <<"8">>, <<"X">>}

StoredTail ==
    { Zeros(23),
      <<"0", "1">> \o FmtInt(8, 2) \o FmtInt(8, 2) \o FmtInt(0, 3) \o <<"0", "0">>
         \o FmtInt(0, 9) \o FmtInt(1, 2) \o <<"0">> \o <<"T", "E", "S", "T">>,
      <<"1", "0">> \o FmtInt(0, 2) \o FmtInt(0, 2) \o FmtInt(0, 3) \o <<"0", "1">>
         \o FmtInt(600000, 9) \o FmtInt(3, 2) \o <<"0">>,
      [i \in 1..30 |-> "X"],
      <<"0", "1", "0">> }

StoredSample ==
    {f \o m \o t : f \in StoredFreq, m \in StoredMode, t \in StoredTail}

\* The split record of channel 5 as the radio returns it: the tag with split
\* digit 1, the split frequency (one of the sampled primary frequencies,
\* another one, zero, not a number) and the other fields; or a record cut
\* inside or before its frequency field
SplitResponses ==
    {<<"M", "R", "1", "0", "0", "5">> \o f \o <<"2">> \o Zeros(23) :
        f \in {FmtInt(14205000, 11), FmtInt(1299999999, 11),
               FmtInt(146000000, 11), Zeros(11),
               <<"X", "X", "X", "X", "X", "X", "X", "X", "X", "X", "X">>}}
      \cup {<<"M", "R", "1", "0", "0", "5", "1", "4", "2">>,
            <<"M", "R", "1", "0", "0", "5">>}

Alphabet == {"0", "1", " "}

RECURSIVE StringsUpTo(_)
StringsUpTo(n) ==
    IF n = 0 THEN {<<>>}
    ELSE LET shorter == StringsUpTo(n - 1)
         IN  shorter \cup {Append(x, c) : x \in shorter, c \in Alphabet}

Payloads == StringsUpTo(MaxPayloadLen)

\* The legacy TC key, a DTMF slot key of the table and a DTMF element name
SettingKeys ==
    { <<"T", "C">>,
      <<"E", "X", "0", "4", "5", "0", "1", "0">>,
      <<"E", "X", "0", "4", "5", "0", "1", "0", "0">> }

\* The DTMF groups drawn: the first and the last of EX045010 .. EX045019
DTMFGroups ==
    { <<"E", "X", "0", "4", "5", "0", "1", "0">>,
      <<"E", "X", "0", "4", "5", "0", "1", "9">> }

\* The elements of a group as the user left them: each holds a value and
\* its changed flag
DTMFElements(name) ==
    { << [name |-> DTMFElementNames(name)[1], value |-> v1, changed |-> c1],
         [name |-> DTMFElementNames(name)[2], value |-> v2, changed |-> c2] >> :
        v1 \in Payloads, c1 \in BOOLEAN, v2 \in Payloads, c2 \in BOOLEAN }

\* What the transport may hand back to the set of one element: an echo of
\* its name with a payload, the radio's error replies, nothing at all
DTMFResponses(name) ==
    {name \o v : v \in Payloads} \cup {<<"?">>, <<"N">>, <<>>}

\* What the transport may hand back: an echo of some key with a payload, the
\* radio's error replies, a cut key, nothing at all (timeout)
Responses ==
    {k \o v : k \in SettingKeys, v \in Payloads}
      \cup {<<"?">>, <<"N">>, <<"T">>, <<>>}

----------------------------------------------------------------------------
(* State machine.  op, arg and ret describe the call in progress or just   *)
(* finished ("init": none); pc is the position inside _kenwood_set or in   *)
(* the loop of set_setting_to_radio ("idle" outside them); log is the      *)
(* sequence of collaborator calls (_do_prerequisite, _command) made by the *)
(* current settings call.                                                  *)

Init ==
    /\ op = "init"
    /\ arg = [none |-> TRUE]
    /\ ret = [err |-> ""]
    /\ pc = "idle"
    /\ log = <<>>

MakeMemSpec ==
    /\ op = "init"
    /\ \E index \in {MaxLowChannel}, mem \in MemSample :
           /\ op' = "_make_mem_spec"
           /\ arg' = [index |-> index, mem |-> mem]
           /\ ret' = _make_mem_spec(_index_to_memid(index), mem)
           /\ UNCHANGED <<pc, log>>

MakeSplitSpec ==
    /\ op = "init"
    /\ \E index \in {MaxLowChannel}, mem \in MemSample :
           /\ op' = "_make_split_spec"
           /\ arg' = [index |-> index, mem |-> mem]
           /\ ret' = _make_split_spec(_index_to_memid(index), mem)
           /\ UNCHANGED <<pc, log>>

CmdSetMemoryOrSplit ==
    /\ op = "init"
    /\ \E index \in AllIndexes, mem \in SmallMems, split \in BOOLEAN :
           /\ op' = "_cmd_set_memory_or_split"
           /\ arg' = [index |-> index, mem |-> mem, split |-> split]
           /\ ret' = _cmd_set_memory_or_split(_index_to_memid(index), mem, split)
           /\ UNCHANGED <<pc, log>>

CmdEraseMemory ==
    /\ op = "init"
    /\ \E number \in AllIndexes :
           /\ op' = "_cmd_erase_memory"
           /\ arg' = [index |-> number]
           /\ ret' = _cmd_erase_memory(number)
           /\ UNCHANGED <<pc, log>>

\* get_memory: the read command for the channel, the radio's record for it
\* (the index tag it was asked for, then what it stores), decoded
GetMemory ==
    /\ op = "init"
    /\ \E index \in AllIndexes, stored \in StoredSample :
       \E rd \in {_cmd_get_memory_or_split(_index_to_memid(index), FALSE).cmd} :
       \E r \in {_parse_mem(rd \o stored)} :
           /\ op' = "get_memory"
           /\ arg' = [index |-> index, stored |-> stored]
           /\ ret' = [err |-> r.err, cmd |-> rd, resp |-> rd \o stored,
                      mem |-> r.mem]
           /\ UNCHANGED <<pc, log>>

\* set_memory then get_memory of the same channel: the radio stores the
\* fields of the MW command and returns them under the MR tag
WriteThenRead ==
    /\ op = "init"
    /\ \E index \in RoundTripIndexes, mem \in MemSample :
       \E w \in {_cmd_set_memory_or_split(_index_to_memid(index), mem, FALSE)} :
       \E record \in
            {IF w.err # "" THEN <<>>
             ELSE _cmd_get_memory_or_split(_index_to_memid(index), FALSE).cmd
                    \o SubSeq(w.cmd, 7, Len(w.cmd) - 3)} :
       \E r \in {IF w.err # "" THEN ParseFail(w.err) ELSE _parse_mem(record)} :
           /\ op' = "set_get_memory"
           /\ arg' = [index |-> index, mem |-> mem]
           /\ ret' = [err |-> r.err, cmd |-> w.cmd, resp |-> record, mem |-> r.mem]
           /\ UNCHANGED <<pc, log>>

ParseSplit ==
    /\ op = "init"
    /\ \E mem \in MemSample, rsp \in SplitResponses :
           /\ op' = "_parse_split"
           /\ arg' = [mem |-> mem, resp |-> rsp]
           /\ ret' = _parse_split(mem, rsp)
           /\ UNCHANGED <<pc, log>>

KenwoodSimpleGet ==
    /\ op = "init"
    /\ \E key \in SettingKeys, rsp \in Responses :
           /\ op' = "_kenwood_simple_get"
           /\ arg' = [cmd |-> key, resp |-> rsp]
           /\ ret' = _kenwood_simple_get(key, rsp)
           /\ log' = << <<"_command", key>> >>
           /\ UNCHANGED pc

(* _kenwood_set, one step per collaborator call *)

KenwoodSetBegin ==
    /\ op = "init"
    /\ \E key \in SettingKeys, val \in Payloads :
           /\ op' = "_kenwood_set"
           /\ arg' = [cmd |-> key, value |-> val]
           /\ ret' = [err |-> "", key |-> key, resp |-> <<>>]
           /\ pc' = "enable"
           /\ log' = <<>>

PrereqEnable ==
    /\ pc = "enable"
    /\ log' = Append(log, <<"_do_prerequisite", arg.cmd, FALSE, TRUE>>)
    /\ pc' = "command"
    /\ UNCHANGED <<op, arg, ret>>

SendCommand ==
    /\ pc = "command"
    /\ \E rsp \in Responses :
          ret' = [ret EXCEPT !.resp = rsp]
    /\ log' = Append(log, <<"_command", _kenwood_set_command(arg.cmd, arg.value)>>)
    /\ pc' = "disable"
    /\ UNCHANGED <<op, arg>>

\* Faulty variant: the echo is checked first, and a refused set raises before the
\* priming is disabled
PrereqDisable_after_check ==
    /\ pc = "disable"
    /\ IF _kenwood_set_result(arg.cmd, arg.value, ret.resp).err # ""
       THEN /\ ret' = [ret EXCEPT !.err = "Radio refused to set"]
            /\ pc' = "idle"
            /\ UNCHANGED log
       ELSE /\ log' = Append(log, <<"_do_prerequisite", arg.cmd, FALSE, FALSE>>)
            /\ pc' = "check"
            /\ UNCHANGED ret
    /\ UNCHANGED <<op, arg>>

PrereqDisable ==
    /\ pc = "disable"
    /\ log' = Append(log, <<"_do_prerequisite", arg.cmd, FALSE, FALSE>>)
    /\ pc' = "check"
    /\ UNCHANGED <<op, arg, ret>>

CheckEcho ==
    /\ pc = "check"
    /\ ret' = [ret EXCEPT
                 !.err = _kenwood_set_result(arg.cmd, arg.value, ret.resp).err]
    /\ pc' = "idle"
    /\ UNCHANGED <<op, arg, log>>

\* The settings tree is built: the schema of one leaf of _SETTINGS_MENUS is
\* looked up in _SETTINGS
MenuSetting ==
    /\ op = "init"
    /\ \E n \in 1..Len(MenuKeys(_SETTINGS_MENUS)) :
       \E key \in {MenuKeys(_SETTINGS_MENUS)[n]} :
           /\ op' = "menu_setting"
           /\ arg' = [key |-> key]
           /\ ret' = SettingSchema(key)
           /\ UNCHANGED <<pc, log>>

\* A label of a map setting is chosen, sent as its wire code, and the code
\* the radio then reports is shown as a label
MapSetting ==
    /\ op = "init"
    /\ \E i \in 1..Len(_SETTINGS) :
          /\ _SETTINGS[i][2].type = "map"
          /\ \E n \in 1..Len(_SETTINGS[i][2].map) :
             \E label \in {_SETTINGS[i][2].map[n][1]} :
             \E code \in {MapCode(_SETTINGS[i][2].map, label)} :
                /\ op' = "map_setting"
                /\ arg' = [key |-> _SETTINGS[i][1], label |-> label]
                /\ ret' = [err |-> "", code |-> code,
                           label |-> MapLabel(_SETTINGS[i][2].map, code)]
                /\ UNCHANGED <<pc, log>>

(* Kenwoodts2000DTMFMemory.set_setting_to_radio, one step per element of *)
(* the group; ret.elements are the elements with their current flags and  *)
(* ret.done counts the elements the loop has passed                       *)

SetSettingToRadioBegin ==
    /\ op = "init"
    /\ \E name \in DTMFGroups :
       \E elements \in DTMFElements(name) :
           /\ op' = "set_setting_to_radio"
           /\ arg' = [name |-> name, elements |-> elements]
           /\ ret' = [err |-> "", elements |-> elements, done |-> 0]
           /\ pc' = "element"
           /\ log' = <<>>

\* One pass of the loop body: an unchanged element is skipped; a changed
\* one is set with _kenwood_set (priming enable, exchange, priming disable,
\* echo check), which raises when the radio refuses, and then its flag is
\* cleared
SetSettingToRadioElement ==
    /\ pc = "element"
    /\ LET k == ret.done + 1
           element == ret.elements[k]
           value == DTMFValue(element.value)
           last == k = Len(ret.elements)
       IN  IF ~element.changed
           THEN /\ ret' = [ret EXCEPT !.done = k]
                /\ pc' = IF last THEN "idle" ELSE "element"
                /\ UNCHANGED log
           ELSE \E rsp \in DTMFResponses(element.name) :
                \E r \in {_kenwood_set_result(element.name, value, rsp)} :
                   /\ log' = log \o
                        << <<"_do_prerequisite", element.name, FALSE, TRUE>>,
                           <<"_command", _kenwood_set_command(element.name, value)>>,
                           <<"_do_prerequisite", element.name, FALSE, FALSE>> >>
                   /\ IF r.err # ""
                      THEN /\ ret' = [ret EXCEPT !.err = r.err, !.done = k]
                           /\ pc' = "idle"
                      ELSE /\ ret' = [ret EXCEPT !.done = k,
                                         !.elements[k].changed = FALSE]
                           /\ pc' = IF last THEN "idle" ELSE "element"
    /\ UNCHANGED <<op, arg>>

\* The call has returned or raised; the codec keeps nothing between calls
Return ==
    /\ op # "init"
    /\ pc = "idle"
    /\ op' = "init"
    /\ arg' = [none |-> TRUE]
    /\ ret' = [err |-> ""]
    /\ UNCHANGED pc
    /\ log' = <<>>

Next ==
    \/ MakeMemSpec
    \/ MakeSplitSpec
    \/ CmdSetMemoryOrSplit
    \/ CmdEraseMemory
    \/ GetMemory
    \/ WriteThenRead
    \/ ParseSplit
    \/ KenwoodSimpleGet
    \/ KenwoodSetBegin
    \/ PrereqEnable
    \/ SendCommand
    \/ PrereqDisable
    \/ CheckEcho
    \/ MenuSetting
    \/ MapSetting
    \/ SetSettingToRadioBegin
    \/ SetSettingToRadioElement
    \/ Return

Spec == Init /\ [][Next]_vars

----------------------------------------------------------------------------
(* Properties *)

IsPrefix(k, r) == Len(r) >= Len(k) /\ \A i \in 1..Len(k) : r[i] = k[i]

EndsWith(r, t) == Len(r) >= Len(t) /\ SubSeq(r, Len(r) - Len(t) + 1, Len(r)) = t

KnownDuplex == {_DUPLEX[i] : i \in 1..Len(_DUPLEX)}

InTables(mem) ==
    /\ IndexOf(_TONES, mem.rtone) >= 0
    /\ IndexOf(_TONES, mem.ctone) >= 0
    /\ IndexOf(DTCS_CODES, mem.dtcs) >= 0

\* The index tag the spec gives channel n: the split digit and the 3-digit
\* number of a normal channel, the pair-half digit and the 3-digit base of a
\* sweep-limit index
ExpectedTag(n, split) ==
    IF n <= _UPPER THEN <<IF split THEN "1" ELSE "0">> \o FmtInt(n, 3)
    ELSE <<Digit[((n - 290) % 2) + 1]>> \o FmtInt(((n - 290) \div 2) + 290, 3)

\* C1: index mapping round-trip.  Reading sweep-limit index i (290..309)
\* asks for the tag (half, base) = ((i-290) mod 2, (i-290) div 2 + 290), base
\* in 290..299, and decoding a record carrying that tag gives number = i;
\* the twenty tags are pairwise distinct.
IndexRoundTrip ==
    /\ \A i, j \in SweepLimitIndexes :
          i # j => _get_range_end_mem(i) # _get_range_end_mem(j)
    /\ (op = "get_memory" /\ arg.index \in SweepLimitIndexes) =>
          /\ ret.cmd = <<"M", "R">> \o ExpectedTag(arg.index, FALSE)
          /\ ParseInt(SubSeq(ret.cmd, 4, 6)) \in 290..299
          /\ ret.err = "" => ret.mem.number = arg.index

IndexRoundTripWitness ==
    /\ op = "get_memory"
    /\ arg.index = 307
    /\ ret.cmd = <<"M", "R", "1", "2", "9", "8">>
    /\ ret.err = ""
    /\ ret.mem.number = 307

\* C2: encode/decode round-trip.  Writing a non-split record (duplex none,
\* +, - or =, toneMode not none, tones in the tables, name of at most 7
\* characters) to a normal channel and decoding what comes back gives the
\* same frequency, mode, tuningStep, rtone, ctone, dtcsCode, duplex, offset,
\* skip and name.
EncodeDecodeRoundTrip ==
    (/\ op = "set_get_memory"
     /\ arg.index <= _UPPER
     /\ arg.mem.tmode # ""
     /\ arg.mem.duplex \in {"", "+", "-", "="}
     /\ InTables(arg.mem)
     /\ Len(arg.mem.name) <= VALID_NAME_LENGTH) =>
        /\ ret.err = ""
        /\ \A f \in {"freq", "mode", "tuning_step", "rtone", "ctone", "dtcs",
                     "duplex", "offset", "skip", "name"} :
              ret.mem[f] = arg.mem[f]

\* C3: duplex resolution when encoding.  Every duplex value of the duplex
\* table (none, +, -, =, split) gives a spec from both builders, with the
\* table code as duplex digit (0 for split, and offset 0 in the primary
\* spec); only a value outside the table ends in the error.
DuplexResolution ==
    (/\ op \in {"_make_mem_spec", "_make_split_spec"}
     /\ arg.mem.tmode = "" \/ InTables(arg.mem)) =>
        /\ arg.mem.duplex \in KnownDuplex =>
              /\ ret.err = ""
              /\ ret.spec[9] = IF arg.mem.duplex = "split" THEN <<"0">>
                               ELSE DigitsOf(IndexOf(_DUPLEX, arg.mem.duplex))
              /\ (op = "_make_mem_spec" /\ arg.mem.duplex = "split") =>
                    ret.spec[10] = Zeros(9)
        /\ arg.mem.duplex \notin KnownDuplex => ret.err # ""

\* C4: erase addressing.  On both erase paths the command for channel n is
\* MW, the index tag a write to n uses, then exactly 35 zero digits.
EraseAddressing ==
    /\ op = "_cmd_erase_memory" =>
          ret.cmd = <<"M", "W">> \o ExpectedTag(arg.index, FALSE) \o Zeros(35)
    /\ (op = "_cmd_set_memory_or_split" /\ arg.mem.empty /\ ret.err = "") =>
          ret.cmd = <<"M", "W">> \o ExpectedTag(arg.index, arg.split)
                      \o Zeros(35) \o <<";", "I", "D">>

\* C5: forced response.  Every channel write and channel erase command ends
\* with the identity query ";ID".
ForcedResponse ==
    (op \in {"_cmd_set_memory_or_split", "_cmd_erase_memory"} /\ ret.err = "") =>
        EndsWith(ret.cmd, <<";", "I", "D">>)

\* C6: settings set sequencing.  _kenwood_set makes exactly three
\* collaborator calls, in this order: priming enable for the key, the one
\* exchange key + value + ";" + key, priming disable for the key; the
\* disable is made before the echo is checked (and so also when the set is
\* refused), and there is no second command.
SetSequencing ==
    op = "_kenwood_set" =>
        LET full == << <<"_do_prerequisite", arg.cmd, FALSE, TRUE>>,
                       <<"_command", arg.cmd \o arg.value \o <<";">> \o arg.cmd>>,
                       <<"_do_prerequisite", arg.cmd, FALSE, FALSE>> >>
            done == CASE pc = "enable" -> 0
                      [] pc = "command" -> 1
                      [] pc = "disable" -> 2
                      [] pc \in {"check", "idle"} -> 3
        IN  /\ log = SubSeq(full, 1, done)
            /\ pc # "idle" => ret.err = ""

SetSequencingWitness ==
    /\ op = "_kenwood_set"
    /\ pc = "idle"
    /\ ret.err = "Radio refused to set"
    /\ Len(log) = 3
    /\ log[3] = <<"_do_prerequisite", arg.cmd, FALSE, FALSE>>

\* C7: settings set echo verification.  _kenwood_set returns normally
\* exactly when the response is the key immediately followed by the value
\* (empty argument delimiter); any other response raises "Radio refused to
\* set <key>".
SetEchoVerification ==
    (op = "_kenwood_set" /\ pc = "idle") =>
        /\ ret.err = "" <=> ret.resp = arg.cmd \o arg.value
        /\ ret.err # "" => (ret.err = "Radio refused to set" /\ ret.key = arg.cmd)

SetEchoVerificationWitness ==
    /\ op = "_kenwood_set"
    /\ pc = "idle"
    /\ arg.value = <<" ", "1">>
    /\ ret.resp = arg.cmd \o <<" ", "1">>
    /\ ret.err = ""

\* C8: settings get decoding.  _kenwood_simple_get sends the bare key; a
\* response that starts with the key gives the remainder as the value, a
\* response equal to the key gives the empty value, and any response not
\* prefixed by the key raises "Radio refused to return <key>".
SimpleGetDecoding ==
    op = "_kenwood_simple_get" =>
        /\ log = << <<"_command", arg.cmd>> >>
        /\ IsPrefix(arg.cmd, arg.resp) =>
              /\ ret.err = ""
              /\ ret.key = arg.cmd
              /\ arg.cmd \o ret.value = arg.resp
        /\ arg.resp = arg.cmd => (ret.err = "" /\ ret.value = <<>>)
        /\ ~IsPrefix(arg.cmd, arg.resp) =>
              (ret.err = "Radio refused to return" /\ ret.key = arg.cmd)

SimpleGetDecodingWitness ==
    /\ op = "_kenwood_simple_get"
    /\ arg.resp = arg.cmd
    /\ ret.err = ""
    /\ ret.value = <<>>

\* C9: empty-record normalisation.  A record that holds all its fixed-width
\* fields and whose mode digit (P5) is "0" decodes to an empty record whose
\* number comes from the index fields, whatever the other fields hold, and
\* none of frequency, mode, step, tones, duplex, offset, skip, name is decoded.
EmptyRecordNormalisation ==
    (/\ op = "get_memory"
     /\ Len(arg.stored) >= 35
     /\ arg.stored[12] = "0") =>
        /\ ret.err = ""
        /\ ret.mem.empty
        /\ ret.mem.number = arg.index
        /\ \A f \in {"freq", "mode", "tuning_step", "tmode", "rtone", "ctone",
                     "dtcs", "duplex", "offset", "skip", "name"} :
              ret.mem[f] = Memory[f]

EmptyRecordNormalisationWitness ==
    /\ op = "get_memory"
    /\ arg.stored = [i \in 1..42 |-> IF i = 12 THEN "0" ELSE "X"]
    /\ ret.err = ""
    /\ ret.mem.empty
    /\ ret.mem.number = arg.index

\* C10: tone-off encoding.  With toneMode none both builders encode rtone,
\* ctone and dtcsCode as "00", "00" and "000" whatever values the record
\* stores, in the tables or not, and the stored values raise no error.
ToneOffEncoding ==
    (op \in {"_make_mem_spec", "_make_split_spec"} /\ arg.mem.tmode = "") =>
        /\ arg.mem.duplex \in {"", "+", "-", "split"} => ret.err = ""
        /\ ret.err = "" =>
              /\ ret.spec[5] = <<"0", "0">>
              /\ ret.spec[6] = <<"0", "0">>
              /\ ret.spec[7] = <<"0", "0", "0">>

ToneOffEncodingWitness ==
    /\ op = "_make_split_spec"
    /\ arg.mem.tmode = ""
    /\ arg.mem.rtone = 693
    /\ arg.mem.dtcs = 24
    /\ ret.err = ""
    /\ ret.spec[5] = <<"0", "0">>
    /\ ret.spec[7] = <<"0", "0", "0">>

\* C11: mode-dependent step table.  The step field of an encoded record is
\* the 2-digit index of tuningStep in (5, 6.25, 10, 12.5, 15, 20, 25, 30, 50,
\* 100) for mode AM or FM and in (1, 2.5, 5, 10) for every other mode; a
\* record written and read back has the mode and the tuningStep it was
\* written with, for every (mode, step) pair valid for the mode.
StepTableChoice ==
    LET fm == <<500, 625, 1000, 1250, 1500, 2000, 2500, 3000, 5000, 10000>>
        ssb == <<100, 250, 500, 1000>>
        table(mode) == IF mode \in {"AM", "FM"} THEN fm ELSE ssb
        valid(m) == IndexOf(table(m.mode), m.tuning_step) >= 0
        field(m) == FmtInt(IndexOf(table(m.mode), m.tuning_step), 2)
    IN  /\ (op \in {"_make_mem_spec", "_make_split_spec"} /\ ret.err = "") =>
              (valid(arg.mem) /\ ret.spec[11] = field(arg.mem))
        /\ (op = "set_get_memory" /\ valid(arg.mem)) =>
              /\ (/\ arg.mem.duplex \in {"", "+", "-", "split"}
                  /\ arg.mem.tmode = "" \/ InTables(arg.mem)) => ret.err = ""
              /\ ret.err = "" =>
                    /\ SubSeq(ret.cmd, 39, 40) = field(arg.mem)
                    /\ ret.mem.mode = arg.mem.mode
                    /\ ret.mem.tuning_step = arg.mem.tuning_step

\* 10 kHz is entry 3 of the SSB/CW table and entry 2 of the FM/AM table
StepTableChoiceWitness ==
    /\ op = "set_get_memory"
    /\ arg.mem.mode = "CW-R"
    /\ arg.mem.tuning_step = 1000
    /\ SubSeq(ret.cmd, 39, 40) = <<"0", "3">>
    /\ ret.err = ""
    /\ ret.mem.mode = "CW-R"
    /\ ret.mem.tuning_step = 1000

\* C12: write command layout.  For a non-empty record on a normal channel
\* the write command is MW, the split digit, the 3-digit memory number, then
\* frequency(11) mode(1) skip(1) toneMode(1) rtone(2) ctone(2) dtcs(3) "0"
\* duplex(1) offset(9) step(2) "0", which is exactly 35 digits, then the name
\* and ";ID"; channel 5 with 14205000 Hz, USB, Tone, 88.5/88.5, offset 0,
\* duplex none, name TEST gives MW0005 00014205000 2 0 1 08 08 000 0 0
\* 000000000 02 0 TEST ;ID.
WriteCommandLayout ==
    (/\ op \in {"_cmd_set_memory_or_split", "set_get_memory"}
     /\ arg.index <= _UPPER
     /\ ~arg.mem.empty
     /\ ret.err = "") =>
        LET c == ret.cmd
            m == arg.mem
            split == IF op = "_cmd_set_memory_or_split" THEN arg.split ELSE FALSE
            n == Len(c)
        IN  /\ n = 2 + 4 + 35 + Len(m.name) + 3
            /\ SubSeq(c, 1, 2) = <<"M", "W">>
            /\ c[3] = (IF split THEN "1" ELSE "0")
            /\ SubSeq(c, 4, 6) = FmtInt(arg.index, 3)
            /\ \A i \in 7..41 : c[i] \in DigitChars
            /\ SubSeq(c, 7, 17) = FmtInt(IF split THEN m.offset ELSE m.freq, 11)
            /\ _MODES[DigitVal(c[18])] = m.mode
            /\ c[19] = (IF m.skip = "S" THEN "1" ELSE "0")
            /\ _TMODES[DigitVal(c[20]) + 1] = m.tmode
            /\ m.tmode # "" => /\ _TONES[ParseInt(SubSeq(c, 21, 22))] = m.rtone
                               /\ _TONES[ParseInt(SubSeq(c, 23, 24))] = m.ctone
                               /\ DTCS_CODES[ParseInt(SubSeq(c, 25, 27)) + 1] = m.dtcs
            /\ c[28] = "0"
            /\ m.duplex # "split" => _DUPLEX[DigitVal(c[29]) + 1] = m.duplex
            /\ (~split /\ m.duplex # "split") =>
                   SubSeq(c, 30, 38) = FmtInt(m.offset, 9)
            /\ (split \/ m.duplex = "split") => SubSeq(c, 30, 38) = Zeros(9)
            /\ ParseInt(SubSeq(c, 39, 40)) =
                   IndexOf(IF m.mode \in {"AM", "FM"} THEN _FM_STEPS ELSE _SSB_STEPS,
                           m.tuning_step)
            /\ c[41] = "0"
            /\ SubSeq(c, 42, n - 3) = m.name
            /\ SubSeq(c, n - 2, n) = <<";", "I", "D">>

WriteCommandLayoutWitness ==
    /\ op = "_cmd_set_memory_or_split"
    /\ arg.index = 5
    /\ ~arg.split
    /\ arg.mem = Mem(14205000, 0, "USB", 500, "", "Tone", <<885, 885, 23>>, "",
                     <<"T", "E", "S", "T">>)
    /\ ret.cmd = <<"M", "W", "0", "0", "0", "5">> \o FmtInt(14205000, 11)
                   \o <<"2", "0", "1", "0", "8", "0", "8", "0", "0", "0", "0", "0">>
                   \o Zeros(9) \o <<"0", "2", "0">>
                   \o <<"T", "E", "S", "T", ";", "I", "D">>

\* C13: DTMF delete coercion.  The exchanges set_setting_to_radio makes are,
\* in element order, those of the elements whose changed flag is set and no
\* others; each sends the element's name with a single blank when the value
\* is empty or starts with a blank, and with the value itself otherwise.
DTMFDeleteCoercion ==
    op = "set_setting_to_radio" =>
        LET sent == SelectSeq(log, LAMBDA e : e[1] = "_command")
            passed == SubSeq(arg.elements, 1, ret.done)
            changed == SelectSeq(passed, LAMBDA e : e.changed)
            wire(v) == IF v = <<>> \/ v[1] = " " THEN <<" ">> ELSE v
        IN  /\ Len(sent) = Len(changed)
            /\ \A i \in 1..Len(sent) :
                   sent[i][2] = changed[i].name \o wire(changed[i].value)
                                  \o <<";">> \o changed[i].name
            /\ (pc = "idle" /\ ret.err = "") => ret.done = Len(arg.elements)

\* The name is unchanged and not sent; the value " 1" goes out as " "
DTMFDeleteCoercionWitness ==
    /\ op = "set_setting_to_radio"
    /\ pc = "idle"
    /\ ret.err = ""
    /\ ~arg.elements[1].changed
    /\ arg.elements[2].changed
    /\ arg.elements[2].value = <<" ", "1">>
    /\ Len(log) = 3
    /\ log[2] = <<"_command",
                  <<"E", "X", "0", "4", "5", "0", "1", "9", "1", " ", ";",
                    "E", "X", "0", "4", "5", "0", "1", "9", "1">> >>

\* C14: split decoding.  When the frequency field of the split response
\* (characters 7..17 after the tag, 11 digits) differs from the record's
\* frequency, _parse_split sets duplex to "split" and offset to that
\* frequency; when it is equal, duplex and offset stay as they were; every
\* other field of the record is unchanged in both cases.
SplitDecoding ==
    (op = "_parse_split" /\ Len(arg.resp) >= 17
       /\ \A i \in 7..17 : arg.resp[i] \in DigitChars) =>
        LET split_freq == ParseInt(SubSeq(arg.resp, 7, 17))
        IN  /\ ret.err = ""
            /\ split_freq # arg.mem.freq =>
                   (ret.mem.duplex = "split" /\ ret.mem.offset = split_freq)
            /\ split_freq = arg.mem.freq =>
                   /\ ret.mem.duplex = arg.mem.duplex
                   /\ ret.mem.offset = arg.mem.offset
            /\ (ret.mem.duplex = "split" /\ arg.mem.duplex # "split") =>
                   split_freq # arg.mem.freq
            /\ \A f \in DOMAIN arg.mem \ {"duplex", "offset"} :
                   ret.mem[f] = arg.mem[f]

\* A "+" record whose split frequency differs: duplex and offset are
\* replaced, the frequency and the name stay
SplitDecodingWitness ==
    /\ op = "_parse_split"
    /\ ret.err = ""
    /\ arg.mem.freq = 1299999999
    /\ arg.mem.duplex = "+"
    /\ arg.mem.offset = 999999999
    /\ arg.mem.name = <<"T", "E", "S", "T">>
    /\ Len(arg.resp) >= 17
    /\ SubSeq(arg.resp, 7, 17) = FmtInt(14205000, 11)
    /\ ret.mem.duplex = "split"
    /\ ret.mem.offset = 14205000
    /\ ret.mem.freq = 1299999999
    /\ ret.mem.name = <<"T", "E", "S", "T">>

\* C15: protected field marking.  A decoded record has the fields name,
\* tmode, rtone, ctone, dtcs, duplex, offset, mode, tuning_step, skip marked
\* immutable exactly when it is a sweep-limit End sub-channel (index above
\* UPPER at an odd offset from 290, named "NNN End"), whether the record is
\* empty or programmed; Start sub-channels and channels 0..UPPER carry no
\* immutable field; and an End record whose frequency, mode and step fields
\* are well formed is returned, not rejected.
ProtectedFieldMarking ==
    op = "get_memory" =>
        LET protected == {"name", "tmode", "rtone", "ctone", "dtcs", "duplex",
                          "offset", "mode", "tuning_step", "skip"}
            isEnd == arg.index > 289 /\ (arg.index - 290) % 2 = 1
            st == arg.stored
            programmed ==
                /\ \A i \in 1..11 : st[i] \in DigitChars
                /\ st[12] \in {"1", "2", "3", "4", "5", "6", "7", "9"}
                /\ st[33] = "0"
                /\ st[34] \in (IF st[12] \in {"4", "5"} THEN DigitChars
                                ELSE {"0", "1", "2", "3"})
        IN  /\ ret.err = "" =>
                  ret.mem.immutable = (IF isEnd THEN protected ELSE {})
            /\ (isEnd /\ ret.err = "") =>
                  EndsWith(ret.mem.extd_number, <<" ", "E", "n", "d">>)
            /\ (isEnd /\ Len(st) >= 35 /\ (st[12] = "0" \/ programmed)) =>
                  ret.err = ""

\* A programmed "290 End" record: marked and returned, with the fields behind
\* the step left undecoded (the stored tone mode is Tone)
ProtectedFieldMarkingWitness ==
    /\ op = "get_memory"
    /\ arg.index = 291
    /\ arg.stored[12] = "2"
    /\ arg.stored[14] = "1"
    /\ ret.err = ""
    /\ ~ret.mem.empty
    /\ ret.mem.freq = 14205000
    /\ ret.mem.tmode = ""
    /\ ret.mem.extd_number = <<"2", "9", "0", " ", "E", "n", "d">>
    /\ ret.mem.immutable = IMMUTABLE_FIELDS

\* C16: label-to-code maps are injective.  In the map of every setting of
\* type map (the PF key map of EX0510100..EX0510500 and the TC map) a label
\* shares its wire code with no other label, and the label found for the
\* wire code of a label is that label.
MapInjective ==
    op = "map_setting" =>
        LET map == SettingsGet(arg.key).map
        IN  /\ \A i \in 1..Len(map) :
                  map[i][2] = ret.code => map[i][1] = arg.label
            /\ ret.label = arg.label

\* C17: menu tree and settings table agree.  Every setting key that is a
\* leaf of _SETTINGS_MENUS, sub-menus included, is a key of _SETTINGS, so
\* the lookup of its schema succeeds; this includes the packet
\* communication mode key.
MenuKeysInSettings ==
    op = "menu_setting" =>
        /\ \E i \in 1..Len(_SETTINGS) : _SETTINGS[i][1] = arg.key
        /\ ret.err = ""

====
